---- MODULE Spec2Model ----
(***************************************************************************)
(* A model of bot.py, the Inspector shift-reminder Telegram bot.            *)
(*                                                                          *)
(* Strings of the source are kept as strings, with the Hebrew words         *)
(* transliterated to ASCII:                                                 *)
(*   days    rishon sheni shlishi revii hamishi shishi shabat               *)
(*   shifts  boker, tsohorayim, layla, "kfula boker", "kfula layla"         *)
(*   actions knisa (entry), yetsia (exit);  haser = the removal keyword     *)
(* Instants are seconds of local wall-clock time counted from a Monday      *)
(* 00:00:00 (one fixed UTC offset: no daylight-saving change is modelled).  *)
(***************************************************************************)
EXTENDS Integers, Sequences, FiniteSets, Bags, TLC

VARIABLES
    now,            \* datetime.now(TZ), as far as the clock of the model has moved
    approved_users, \* the module-level set approved_users
    pending,        \* the module-level dict pending: job_name -> bool
    jobs,           \* context.job_queue: a bag of scheduled jobs
    user_data,      \* context.user_data, per user: key -> value
    conv,           \* per user, the state of the three ConversationHandlers
    chat,           \* per user, the messages of the chat that carry buttons
    tasks,          \* coroutines suspended at an await (bag)
    acked,          \* history: job_name -> confirmed since it last fired
    committed       \* history: per user, the (day, shift) pairs committed and not removed

vars == <<now, approved_users, pending, jobs, user_data, conv, chat, tasks,
          acked, committed>>

----------------------------------------------------------------------------
(* Program constants *)

ADMIN_ID == 1

Users == {1, 12}

SHIFTS ==
    [s \in {"boker", "tsohorayim", "layla", "kfula boker", "kfula layla"} |->
        CASE s = "boker"       -> [start |-> <<7, 0>>,  end |-> <<15, 0>>]
          [] s = "tsohorayim"  -> [start |-> <<15, 0>>, end |-> <<23, 0>>]
          [] s = "layla"       -> [start |-> <<23, 0>>, end |-> <<7, 0>>]
          [] s = "kfula boker" -> [start |-> <<7, 0>>,  end |-> <<19, 0>>]
          [] s = "kfula layla" -> [start |-> <<19, 0>>, end |-> <<7, 0>>]]

SHIFT_ALIASES ==
    [s \in {"boker kfula", "layla kfula"} |->
        IF s = "boker kfula" THEN "kfula boker" ELSE "kfula layla"]

DAY_MAP ==
    [d \in {"rishon", "sheni", "shlishi", "revii", "hamishi", "shishi", "shabat"} |->
        CASE d = "rishon"  -> 6
          [] d = "sheni"   -> 0
          [] d = "shlishi" -> 1
          [] d = "revii"   -> 2
          [] d = "hamishi" -> 3
          [] d = "shishi"  -> 4
          [] d = "shabat"  -> 5]

WAITING_FOR_SHIFTS == 1
WAITING_FOR_MORE_SHIFTS == 2
WAITING_FOR_UPDATE == 3
WAITING_FOR_SCHEDULE_NAME == 4
WAITING_FOR_SCHEDULE_IMAGE == 5
\* ConversationHandler.END; a conversation that ended, or never began, has no state
END == -1

LeadMinutes == 5
NudgeSeconds == 150
TestNudgeSeconds == 10

----------------------------------------------------------------------------
(* Strings *)

Digit == [i \in 0..9 |->
    CASE i = 0 -> "0" [] i = 1 -> "1" [] i = 2 -> "2" [] i = 3 -> "3"
      [] i = 4 -> "4" [] i = 5 -> "5" [] i = 6 -> "6" [] i = 7 -> "7"
      [] i = 8 -> "8" [] i = 9 -> "9"]

\* str(n) of a natural number (an f-string's {user_id}, {count})
RECURSIVE Str(_)
Str(n) == IF n < 10 THEN Digit[n] ELSE Str(n \div 10) \o Digit[n % 10]

IsDigits(s) ==
    /\ Len(s) > 0
    /\ \A i \in 1..Len(s) : \E d \in 0..9 : SubSeq(s, i, i) = Digit[d]

\* int(s) of a decimal string
RECURSIVE Int_(_)
Int_(s) ==
    IF Len(s) = 0 THEN 0
    ELSE 10 * Int_(SubSeq(s, 1, Len(s) - 1))
         + (CHOOSE d \in 0..9 : Digit[d] = SubSeq(s, Len(s), Len(s)))

\* s.startswith(p)
StartsWith(s, p) == Len(s) >= Len(p) /\ SubSeq(s, 1, Len(p)) = p

\* s.replace(p, "")
RECURSIVE Remove(_, _)
Remove(s, p) ==
    IF Len(s) < Len(p) \/ Len(p) = 0 THEN s
    ELSE IF SubSeq(s, 1, Len(p)) = p
         THEN Remove(SubSeq(s, Len(p) + 1, Len(s)), p)
         ELSE SubSeq(s, 1, 1) \o Remove(SubSeq(s, 2, Len(s)), p)

----------------------------------------------------------------------------
(* Time *)

MINUTE == 60
HOUR == 3600
DAY == 86400
WEEK == 604800

\* datetime.weekday(): Monday is 0
Weekday(t) == (t \div DAY) % 7
\* the datetime's date, as the instant of its 00:00:00
DateOf(t) == (t \div DAY) * DAY
\* seconds since 00:00:00 of the datetime's date
TimeOfDay(t) == t % DAY

\* dt.replace(hour=h, minute=m, second=0, microsecond=0)
ReplaceTime(t, h, m) == DateOf(t) + h * HOUR + m * MINUTE

----------------------------------------------------------------------------
(* Text: str.replace, str.split, str.strip on strings, character by character *)

IsSpace(c) == c \in {" ", "\t", "\n", "\r"}

\* s.replace(a, b) for single characters a, b
RECURSIVE ReplaceChar(_, _, _)
ReplaceChar(s, a, b) ==
    IF Len(s) = 0 THEN s
    ELSE (IF SubSeq(s, 1, 1) = a THEN b ELSE SubSeq(s, 1, 1))
         \o ReplaceChar(SubSeq(s, 2, Len(s)), a, b)

\* s.split(c): the pieces between the occurrences of c, empty ones kept
RECURSIVE SplitOn(_, _)
SplitOn(s, c) ==
    IF \A i \in 1..Len(s) : SubSeq(s, i, i) # c THEN <<s>>
    ELSE LET i == CHOOSE k \in 1..Len(s) :
                      /\ SubSeq(s, k, k) = c
                      /\ \A m \in 1..(k - 1) : SubSeq(s, m, m) # c
         IN  <<SubSeq(s, 1, i - 1)>> \o SplitOn(SubSeq(s, i + 1, Len(s)), c)

\* s.strip()
RECURSIVE Strip(_)
Strip(s) ==
    IF Len(s) = 0 THEN s
    ELSE IF IsSpace(SubSeq(s, 1, 1)) THEN Strip(SubSeq(s, 2, Len(s)))
    ELSE IF IsSpace(SubSeq(s, Len(s), Len(s))) THEN Strip(SubSeq(s, 1, Len(s) - 1))
    ELSE s

\* s.split(): the maximal runs of non-whitespace characters
RECURSIVE Split(_)
Split(s) ==
    LET t == Strip(s) IN
    IF Len(t) = 0 THEN <<>>
    ELSE IF \A i \in 1..Len(t) : ~IsSpace(SubSeq(t, i, i)) THEN <<t>>
    ELSE LET i == CHOOSE k \in 1..Len(t) :
                      /\ IsSpace(SubSeq(t, k, k))
                      /\ \A m \in 1..(k - 1) : ~IsSpace(SubSeq(t, m, m))
         IN  <<SubSeq(t, 1, i - 1)>> \o Split(SubSeq(t, i + 1, Len(t)))

\* the value normalize_shift returns when the text is no shift
None == "None"

\* normalize_shift that takes an alias for a shift as it is;
\* C18_ParsedShifts tells the two apart
NormalizeKeepsAlias(text) ==
    LET t == Strip(text) IN
    IF t \in DOMAIN SHIFT_ALIASES \cup DOMAIN SHIFTS THEN t ELSE None

normalize_shift(text) ==
    LET t == Strip(text) IN
    IF t \in DOMAIN SHIFT_ALIASES THEN SHIFT_ALIASES[t]
    ELSE IF t \in DOMAIN SHIFTS THEN t
    ELSE None

\* the while loop of parse_shifts_from_text over one line's tokens, from index i
\* (1-based here)
RECURSIVE ParseTokens(_, _)
ParseTokens(tokens, i) ==
    IF ~(i <= Len(tokens)) THEN <<>>
    ELSE IF tokens[i] \in DOMAIN DAY_MAP
    THEN LET day_str == tokens[i]
             two == i + 2 <= Len(tokens)
                    /\ normalize_shift(tokens[i + 1] \o " " \o tokens[i + 2]) # None
             one == i + 1 <= Len(tokens) /\ normalize_shift(tokens[i + 1]) # None
         IN  IF two
             THEN <<<<day_str,
                      normalize_shift(tokens[i + 1] \o " " \o tokens[i + 2]),
                      DAY_MAP[day_str]>>>> \o ParseTokens(tokens, i + 3)
             ELSE IF one
             THEN <<<<day_str, normalize_shift(tokens[i + 1]), DAY_MAP[day_str]>>>>
                  \o ParseTokens(tokens, i + 2)
             ELSE ParseTokens(tokens, i + 1)
    ELSE ParseTokens(tokens, i + 1)

\* the for loop of parse_shifts_from_text over the lines
RECURSIVE ParseLines(_)
ParseLines(lines) ==
    IF Len(lines) = 0 THEN <<>>
    ELSE LET line == Strip(ReplaceChar(lines[1], ":", " "))
         IN  (IF Len(line) = 0 THEN <<>> ELSE ParseTokens(Split(line), 1))
             \o ParseLines(Tail(lines))

parse_shifts_from_text(text) ==
    ParseLines(SplitOn(ReplaceChar(text, "\r", "\n"), "\n"))

----------------------------------------------------------------------------
(* The job queue: a bag of jobs [name, callback, when, data] *)

EmptyQueue == EmptyBag

\* job_queue.run_once(callback, when, data, name)
run_once(q, callback, when, data, name) ==
    q (+) SetToBag({[name |-> name, callback |-> callback, when |-> when,
                     data |-> data]})

\* job.schedule_removal() for every job of the queue that is in drop
RemoveJobs(q, drop) == [j \in (DOMAIN q) \ drop |-> q[j]]

\* _schedule_shift_reminder's instant without "if target < now: target +=
\* timedelta(weeks=1)"; C4_NextOccurrence tells the two apart
ShiftTargetThisWeek(t, weekday, time_tuple) ==
    LET hour == time_tuple[1]
        minute == time_tuple[2]
        m0 == minute - LeadMinutes
        reminder_minute == IF m0 < 0 THEN m0 + 60 ELSE m0
        h0 == IF m0 < 0 THEN hour - 1 ELSE hour
        reminder_hour == IF h0 < 0 THEN h0 + 24 ELSE h0
        d0 == weekday - Weekday(t)
        days_ahead == IF d0 < 0 THEN d0 + 7 ELSE d0
    IN  ReplaceTime(t + days_ahead * DAY, reminder_hour, reminder_minute)

\* The instant _schedule_shift_reminder computes: lines 123-139.  Instants are
\* seconds of local wall-clock time, and the offset of the time zone is taken
\* not to change between now and the target.
ShiftTarget(t, weekday, time_tuple) ==
    LET hour == time_tuple[1]
        minute == time_tuple[2]
        m0 == minute - LeadMinutes
        reminder_minute == IF m0 < 0 THEN m0 + 60 ELSE m0
        h0 == IF m0 < 0 THEN hour - 1 ELSE hour
        reminder_hour == IF h0 < 0 THEN h0 + 24 ELSE h0
        d0 == weekday - Weekday(t)
        days_ahead == IF d0 < 0 THEN d0 + 7 ELSE d0
        target == ReplaceTime(t + days_ahead * DAY, reminder_hour, reminder_minute)
    IN  IF target < t THEN target + WEEK ELSE target

_schedule_shift_reminder(q, t, user_id, weekday, time_tuple, shift_name, action, job_name) ==
    run_once(q, "send_reminder", ShiftTarget(t, weekday, time_tuple),
             [action |-> action, shift |-> shift_name, job_name |-> job_name,
              user_id |-> user_id, count |-> 0],
             job_name)

\* the prefix without the underscore that ends the user id;
\* C9_PerUser tells the two apart
ShiftPrefixOpen(user_id) == "shift_" \o Str(user_id)

\* the prefix f"shift_{user_id}_"
ShiftPrefix(user_id) == "shift_" \o Str(user_id) \o "_"

IsDayJob(j, user_id, day_str) ==
    j.name \in {ShiftPrefix(user_id) \o "start_" \o day_str,
                ShiftPrefix(user_id) \o "end_" \o day_str}

\* _remove_day_jobs that looks for the start job only;
\* C13_RemoveListedDays tells the two apart
RemoveStartJobs(q, user_id, day_str) ==
    LET found == {j \in DOMAIN q : j.name = ShiftPrefix(user_id) \o "start_" \o day_str}
    IN  [queue |-> RemoveJobs(q, found), removed |-> found # {}]

\* _remove_day_jobs: the queue afterwards, and the value returned
_remove_day_jobs(q, user_id, day_str) ==
    LET found == {j \in DOMAIN q : IsDayJob(j, user_id, day_str)}
    IN  [queue |-> RemoveJobs(q, found), removed |-> found # {}]

\* _add_day_shift without its second call; C6_TwoTimersPerShift tells the
\* two apart
AddStartOnly(q, t, user_id, day_str, shift_str, day_num) ==
    _schedule_shift_reminder(q, t, user_id, day_num, SHIFTS[shift_str].start,
        shift_str, "knisa", ShiftPrefix(user_id) \o "start_" \o day_str)

_add_day_shift(q, t, user_id, day_str, shift_str, day_num) ==
    LET shift == SHIFTS[shift_str]
        prefix == ShiftPrefix(user_id)
        q1 == _schedule_shift_reminder(q, t, user_id, day_num, shift.start,
                  shift_str, "knisa", prefix \o "start_" \o day_str)
    IN  _schedule_shift_reminder(q1, t, user_id, day_num, shift.end,
                  shift_str, "yetsia", prefix \o "end_" \o day_str)

\* the loop "for day_str, shift_str, day_num in shifts: _add_day_shift(...)"
RECURSIVE AddDayShifts(_, _, _, _)
AddDayShifts(q, t, user_id, shifts) ==
    IF Len(shifts) = 0 THEN q
    ELSE AddDayShifts(
             _add_day_shift(q, t, user_id, shifts[1][1], shifts[1][2], shifts[1][3]),
             t, user_id, Tail(shifts))

\* the jobs _get_user_shifts_text lists: those named shift_<user>_start_...
UserStartJobs(q, user_id) ==
    {j \in DOMAIN q : StartsWith(j.name, ShiftPrefix(user_id) \o "start_")}

DAY_NUM_TO_HE == [n \in 0..6 |-> CHOOSE d \in DOMAIN DAY_MAP : DAY_MAP[d] = n]

\* the lines of _get_user_shifts_text, (day name, shift) in the order of next_t;
\* the dd/mm date of a line is left out, and identical jobs give one line
RECURSIVE SortedLines(_)
SortedLines(js) ==
    IF js = {} THEN <<>>
    ELSE LET j == CHOOSE k \in js : \A m \in js : k.when <= m.when
         IN  <<<<DAY_NUM_TO_HE[Weekday(j.when)], j.data.shift>>>>
             \o SortedLines(js \ {j})

\* _get_user_shifts_text: its lines; <<>> stands for the None it returns when
\* the user has no start job
_get_user_shifts_text(q, user_id) == SortedLines(UserStartJobs(q, user_id))

----------------------------------------------------------------------------
(* Dictionaries, chats and the dispatch of updates *)

\* d.get(k, default)
Get(d, k, default) == IF k \in DOMAIN d THEN d[k] ELSE default

\* d[k] = v
Put(d, k, v) == [x \in (DOMAIN d) \cup {k} |-> IF x = k THEN v ELSE d[x]]

EmptyDict == [x \in {} |-> 0]

is_approved(user_id) == user_id \in approved_users

\* A message that carries an inline keyboard: its buttons' callback_data and
\* the list of shifts or days its text shows (<<>> when it shows none).  A chat is the set of such messages (identical
\* messages are one); messages whose only buttons are those of MAIN_KEYBOARD
\* or BACK_KEYBOARD are not recorded: a user reaches the menu from /start.
Message(buttons, list) == [buttons |-> buttons, list |-> list]

MenuButtons == {"menu_main", "menu_scan", "menu_set_shifts", "menu_update",
                "menu_list", "menu_test"}

ADD_MORE_KEYBOARD == {"add_more_shifts", "done_shifts"}

\* the conversation states of a user who is in no conversation
NoConversation == [scan |-> END, set_shifts |-> END, update |-> END]

\* The handler of main() that takes a message of the user: the handlers are
\* tried in the order they were added, and a ConversationHandler takes an
\* update when it is in no state and the update is one of its entry points,
\* or when a handler of its current state matches (there are no fallbacks).
\* kind is "command", "text" or "photo"; cmd is the command of a command.
HandlerFor(u, kind, cmd) ==
    LET c == conv[u] IN
    CASE kind = "command" /\ cmd = "/start" -> "start"
      [] kind = "command" /\ cmd = "/help" -> "help_command"
      [] kind = "command" /\ cmd = "/list_shifts" -> "list_shifts"
      [] kind = "command" /\ cmd = "/test" -> "test_reminder"
      [] kind = "command" /\ cmd = "/scan" /\ c.scan = END -> "scan_schedule_start"
      [] kind = "text" /\ c.scan = WAITING_FOR_SCHEDULE_NAME -> "scan_schedule_name"
      [] kind = "photo" /\ c.scan = WAITING_FOR_SCHEDULE_IMAGE -> "scan_schedule_image"
      [] kind = "command" /\ cmd = "/set_shifts" /\ c.set_shifts = END
            -> "set_shifts_start"
      [] kind = "text" /\ c.scan # WAITING_FOR_SCHEDULE_NAME
            /\ c.set_shifts = WAITING_FOR_SHIFTS -> "set_shifts_receive"
      [] kind = "text" /\ c.scan # WAITING_FOR_SCHEDULE_NAME
            /\ c.set_shifts = WAITING_FOR_MORE_SHIFTS -> "set_shifts_more"
      [] kind = "command" /\ cmd = "/update" /\ c.update = END -> "update_start"
      [] kind = "text" /\ c.scan # WAITING_FOR_SCHEDULE_NAME
            /\ c.set_shifts = END /\ c.update = WAITING_FOR_UPDATE -> "update_receive"
      [] OTHER -> "none"

\* Updates are handled one at a time: no handler runs while another handler
\* is suspended at an await (job callbacks do).
HandlerIdle == \A t \in DOMAIN tasks : t.fn # "test_reminder"


----------------------------------------------------------------------------
(* Bounds of the model *)

\* The bot is started on a Monday at 06:00, and the clock of the model moves
\* in steps of twelve hours, MaxTicks times.
InitialNow == 6 * HOUR
TickSeconds == 12 * HOUR
MaxTicks == 2
\* nudge timers run up to this count
MaxCount == 2
\* a user starts a test reminder while fewer than this many nudge timers or
\* suspended reminders of it exist
MaxTests == 1

----------------------------------------------------------------------------
(* The state after main() has built the application *)

Started(t) ==
    /\ now = t
    /\ approved_users = {ADMIN_ID}
    /\ pending = EmptyDict
    /\ jobs = EmptyQueue
    /\ user_data = [u \in Users |-> EmptyDict]
    /\ conv = [u \in Users |-> NoConversation]
    /\ chat = [u \in Users |-> {}]
    /\ tasks = EmptyBag
    /\ acked = EmptyDict
    /\ committed = [u \in Users |-> {}]

Init == Started(InitialNow)

----------------------------------------------------------------------------
(* Access: start, help_command, and the approve_/deny_ branches *)

\* the request a user who is not approved sends the admin: lines 334-343
AccessRequest(user_id) ==
    Message({"approve_" \o Str(user_id), "deny_" \o Str(user_id)}, <<>>)

\* /start (user_names, which only words the messages, is left out)
start(u) ==
    /\ HandlerIdle
    /\ HandlerFor(u, "command", "/start") = "start"
    /\ IF is_approved(u)
       THEN /\ chat' = chat
       ELSE /\ chat' = [chat EXCEPT ![ADMIN_ID] = @ \cup {AccessRequest(u)}]
    /\ UNCHANGED <<now, approved_users, pending, jobs, user_data, conv, tasks,
                   acked, committed>>

\* /help
help_command(u) ==
    /\ HandlerIdle
    /\ HandlerFor(u, "command", "/help") = "help_command"
    /\ UNCHANGED <<now, approved_users, pending, jobs, user_data, conv, chat,
                   tasks, acked, committed>>

\* The access requests of all users.  Only the admin is sent them; the client
\* of another user can still make a callback query with their callback_data,
\* which is what "if user_id != ADMIN_ID: return" is there for.
Forged == {AccessRequest(id) : id \in Users}

\* A callback query: the user presses a button of a message of their chat,
\* or a button of the menu.
CanPress(u, m, data) ==
    /\ HandlerIdle
    /\ \/ m \in chat[u] /\ data \in m.buttons
       \/ m = Message(MenuButtons, <<>>) /\ data \in MenuButtons
       \/ u # ADMIN_ID /\ m \in Forged /\ data \in m.buttons

\* query.edit_message_text: the message loses its buttons (or gets those of
\* BACK_KEYBOARD or MAIN_KEYBOARD)
Edited(c, u, m) == [c EXCEPT ![u] = @ \ {m}]

\* the approve_ branch without "if user_id != ADMIN_ID: return";
\* C8_Approval tells the two apart
ApproveByAnyone(u, m, data) ==
    /\ CanPress(u, m, data)
    /\ StartsWith(data, "approve_")
    /\ approved_users' = approved_users \cup {Int_(Remove(data, "approve_"))}
    /\ chat' = Edited(chat, u, m)
    /\ UNCHANGED <<now, pending, jobs, user_data, conv, tasks, acked, committed>>

\* button_callback, data.startswith("approve_")
Approve(u, m, data) ==
    /\ CanPress(u, m, data)
    /\ StartsWith(data, "approve_")
    /\ IF u # ADMIN_ID
       THEN /\ UNCHANGED <<approved_users, chat>>
       ELSE LET new_user_id == Int_(Remove(data, "approve_")) IN
            /\ approved_users' = approved_users \cup {new_user_id}
            /\ chat' = Edited(chat, u, m)
    /\ UNCHANGED <<now, pending, jobs, user_data, conv, tasks, acked, committed>>

\* button_callback, data.startswith("deny_")
Deny(u, m, data) ==
    /\ CanPress(u, m, data)
    /\ ~StartsWith(data, "approve_")
    /\ StartsWith(data, "deny_")
    /\ IF u # ADMIN_ID
       THEN /\ UNCHANGED chat
       ELSE /\ chat' = Edited(chat, u, m)
    /\ UNCHANGED <<now, approved_users, pending, jobs, user_data, conv, tasks,
                   acked, committed>>

\* what button_callback tests before every other branch: lines 576-601
PassesAccess(u, data) ==
    /\ ~StartsWith(data, "approve_")
    /\ ~StartsWith(data, "deny_")
    /\ is_approved(u)

\* button_callback, "if not is_approved(user_id)": an alert, and nothing else
NotApproved(u, m, data) ==
    /\ CanPress(u, m, data)
    /\ ~StartsWith(data, "approve_")
    /\ ~StartsWith(data, "deny_")
    /\ ~is_approved(u)
    /\ UNCHANGED <<now, approved_users, pending, jobs, user_data, conv, chat,
                   tasks, acked, committed>>

----------------------------------------------------------------------------
(* Reminders: send_reminder, nudge_reminder, test_reminder, confirm_<job> *)

\* A timer registered with a datetime (a shift reminder) runs once the clock
\* has reached it, the earliest first; a run_once job leaves the queue when
\* it runs.
Dated(q) == {j \in DOMAIN q : j.callback = "send_reminder"}

Due(j) ==
    /\ j \in Dated(jobs)
    /\ j.when <= now
    /\ \A k \in Dated(jobs) : j.when <= k.when

\* Time passes while no shift reminder is due.
Tick ==
    /\ now + TickSeconds <= InitialNow + MaxTicks * TickSeconds
    /\ \A j \in Dated(jobs) : j.when > now
    /\ now' = now + TickSeconds
    /\ UNCHANGED <<approved_users, pending, jobs, user_data, conv, chat, tasks,
                   acked, committed>>

TakeJob(q, j) == q (-) SetToBag({j})

\* the message with the button "confirm_<job_name>"
ReminderMessage(job_name) == Message({"confirm_" \o job_name}, <<>>)

Suspend(ts, fn, data) == ts (+) SetToBag({[fn |-> fn, data |-> data]})

\* The timer send_reminder, nudge_reminder and test_reminder register.  It is
\* registered with a timedelta, which the queue keeps here as it was given:
\* the clock of the model is coarser than the delay, and the timer runs at
\* any later step.
NudgeJob(q, delay, data, count) ==
    run_once(q, "nudge_reminder", delay,
             [action |-> data.action, shift |-> data.shift,
              job_name |-> data.job_name, user_id |-> data.user_id,
              count |-> count],
             "nudge_" \o data.job_name \o "_" \o Str(count))

\* send_reminder up to its await: lines 502-513
send_reminder(j) ==
    /\ Due(j)
    /\ jobs' = TakeJob(jobs, j)
    /\ pending' = Put(pending, j.data.job_name, FALSE)
    /\ acked' = Put(acked, j.data.job_name, FALSE)
    /\ chat' = [chat EXCEPT ![j.data.user_id] = @ \cup {ReminderMessage(j.data.job_name)}]
    /\ tasks' = Suspend(tasks, "send_reminder", j.data)
    /\ UNCHANGED <<now, approved_users, user_data, conv, committed>>

\* send_reminder after its await: lines 514-519
send_reminder_resume(t) ==
    /\ t \in DOMAIN tasks
    /\ t.fn = "send_reminder"
    /\ tasks' = tasks (-) SetToBag({t})
    /\ jobs' = NudgeJob(jobs, NudgeSeconds, t.data, 1)
    /\ UNCHANGED <<now, approved_users, pending, user_data, conv, chat, acked,
                   committed>>

\* nudge_reminder up to its await: lines 522-533
nudge_reminder(j) ==
    /\ j \in DOMAIN jobs
    /\ j.callback = "nudge_reminder"
    /\ j.data.count <= MaxCount
    /\ jobs' = TakeJob(jobs, j)
    /\ IF Get(pending, j.data.job_name, FALSE)
       THEN /\ UNCHANGED <<chat, tasks>>
       ELSE /\ chat' = [chat EXCEPT ![j.data.user_id] =
                            @ \cup {ReminderMessage(j.data.job_name)}]
            /\ tasks' = Suspend(tasks, "nudge_reminder", j.data)
    /\ UNCHANGED <<now, approved_users, pending, user_data, conv, acked, committed>>

\* nudge_reminder after its await: lines 534-539
nudge_reminder_resume(t) ==
    /\ t \in DOMAIN tasks
    /\ t.fn = "nudge_reminder"
    /\ tasks' = tasks (-) SetToBag({t})
    /\ jobs' = NudgeJob(jobs, NudgeSeconds, t.data, t.data.count + 1)
    /\ UNCHANGED <<now, approved_users, pending, user_data, conv, chat, acked,
                   committed>>

TestJobName(user_id) == "test_job_" \o Str(user_id)

\* the nudge timers and suspended reminders of a job name
Chains(job_name) ==
    BagCardinality([j \in {k \in DOMAIN jobs : k.callback = "nudge_reminder"
                                               /\ k.data.job_name = job_name}
                      |-> jobs[j]])
    + BagCardinality([t \in {k \in DOMAIN tasks : k.data.job_name = job_name}
                      |-> tasks[t]])

\* test_reminder up to its await: lines 545-559
TestReminderBody(u) ==
    IF ~is_approved(u)
    THEN UNCHANGED <<pending, acked, chat, tasks>>
    ELSE /\ Chains(TestJobName(u)) < MaxTests
         /\ pending' = Put(pending, TestJobName(u), FALSE)
         /\ acked' = Put(acked, TestJobName(u), FALSE)
         /\ chat' = [chat EXCEPT ![u] = @ \cup {ReminderMessage(TestJobName(u))}]
         /\ tasks' = Suspend(tasks, "test_reminder",
                             [action |-> "knisa", shift |-> "boker (test)",
                              job_name |-> TestJobName(u), user_id |-> u,
                              count |-> 1])

\* /test
test_reminder(u) ==
    /\ HandlerIdle
    /\ HandlerFor(u, "command", "/test") = "test_reminder"
    /\ TestReminderBody(u)
    /\ UNCHANGED <<now, approved_users, jobs, user_data, conv, committed>>

\* test_reminder after its await: lines 560-565
test_reminder_resume(t) ==
    /\ t \in DOMAIN tasks
    /\ t.fn = "test_reminder"
    /\ tasks' = tasks (-) SetToBag({t})
    /\ jobs' = NudgeJob(jobs, TestNudgeSeconds, t.data, 1)
    /\ UNCHANGED <<now, approved_users, pending, user_data, conv, chat, acked,
                   committed>>

\* the branches of button_callback that are tested before the menu and the
\* confirm_<job> branch: lines 604-638
EarlyButtons == {"confirm_scan", "cancel_scan", "add_more_shifts", "done_shifts"}

\* button_callback, "elif data.startswith("confirm_") and data not in (...)"
IsConfirmJob(data) ==
    /\ data \notin EarlyButtons
    /\ data \notin MenuButtons
    /\ StartsWith(data, "confirm_")
    /\ data \notin {"confirm_update", "confirm_remove", "confirm_scan"}

NudgesOf(q, job_name) ==
    {j \in DOMAIN q : StartsWith(j.name, "nudge_" \o job_name)}

\* the confirm_<job_name> branch without "pending[job_name] = True": it only
\* removes the nudge timers it finds; C2_NoNudgeAfterConfirm tells the two apart
ConfirmRemovesOnly(u, m, data) ==
    /\ CanPress(u, m, data)
    /\ PassesAccess(u, data)
    /\ IsConfirmJob(data)
    /\ LET job_name == Remove(data, "confirm_") IN
       /\ acked' = Put(acked, job_name, TRUE)
       /\ jobs' = RemoveJobs(jobs, NudgesOf(jobs, job_name))
    /\ chat' = Edited(chat, u, m)
    /\ UNCHANGED <<now, approved_users, pending, user_data, conv, tasks, committed>>

\* button_callback, the confirm_<job_name> branch: lines 654-664
Confirm(u, m, data) ==
    /\ CanPress(u, m, data)
    /\ PassesAccess(u, data)
    /\ IsConfirmJob(data)
    /\ LET job_name == Remove(data, "confirm_") IN
       /\ pending' = Put(pending, job_name, TRUE)
       /\ acked' = Put(acked, job_name, TRUE)
       /\ jobs' = RemoveJobs(jobs, NudgesOf(jobs, job_name))
    /\ chat' = Edited(chat, u, m)
    /\ UNCHANGED <<now, approved_users, user_data, conv, tasks, committed>>

\* button_callback, "elif data == "menu_test""
MenuTest(u, m, data) ==
    /\ CanPress(u, m, data)
    /\ PassesAccess(u, data)
    /\ data = "menu_test"
    /\ TestReminderBody(u)
    /\ UNCHANGED <<now, approved_users, jobs, user_data, conv, committed>>

----------------------------------------------------------------------------
(* The conversations: /scan, /set_shifts, /update *)

\* p in s
Contains(s, p) == \E i \in 1..(Len(s) - Len(p) + 1) : SubSeq(s, i, i + Len(p) - 1) = p

\* sorted(shifts, key=lambda x: DAY_MAP[x[0]]): a stable sort
RECURSIVE SortedByDay(_)
SortedByDay(shifts) ==
    IF Len(shifts) = 0 THEN <<>>
    ELSE LET i == CHOOSE k \in 1..Len(shifts) :
                      /\ \A m \in 1..Len(shifts) : shifts[k][3] <= shifts[m][3]
                      /\ \A m \in 1..(k - 1) : shifts[m][3] # shifts[k][3]
         IN  <<shifts[i]>>
             \o SortedByDay(SubSeq(shifts, 1, i - 1) \o SubSeq(shifts, i + 1, Len(shifts)))

\* [s for s in session if s[0] != day]
RECURSIVE WithoutDay(_, _)
WithoutDay(session, day) ==
    IF Len(session) = 0 THEN <<>>
    ELSE (IF session[1][1] # day THEN <<session[1]>> ELSE <<>>)
         \o WithoutDay(Tail(session), day)

\* the loop of set_shifts_receive and set_shifts_more: lines 376-378, 397-399
RECURSIVE MergeSession(_, _)
MergeSession(session, parsed) ==
    IF Len(parsed) = 0 THEN session
    ELSE MergeSession(Append(WithoutDay(session, parsed[1][1]), parsed[1]), Tail(parsed))

\* the (day, shift) pairs of a list of parsed shifts
Pairs(shifts) == {<<shifts[i][1], shifts[i][2]>> : i \in 1..Len(shifts)}

\* scan_schedule_start: the state it returns
scan_schedule_start(u) == IF is_approved(u) THEN WAITING_FOR_SCHEDULE_NAME ELSE END

\* /scan
CmdScan(u) ==
    /\ HandlerIdle
    /\ HandlerFor(u, "command", "/scan") = "scan_schedule_start"
    /\ conv' = [conv EXCEPT ![u].scan = scan_schedule_start(u)]
    /\ UNCHANGED <<now, approved_users, pending, jobs, user_data, chat, tasks,
                   acked, committed>>

scan_schedule_name(u, text) ==
    /\ HandlerIdle
    /\ HandlerFor(u, "text", "") = "scan_schedule_name"
    /\ user_data' = [user_data EXCEPT ![u] = Put(@, "schedule_name", Strip(text))]
    /\ conv' = [conv EXCEPT ![u].scan = WAITING_FOR_SCHEDULE_IMAGE]
    /\ UNCHANGED <<now, approved_users, pending, jobs, chat, tasks, acked, committed>>

ScanMessage(parsed) == Message({"confirm_scan", "cancel_scan"}, parsed)

\* scan_schedule_image: result is the text analyze_schedule_image returns,
\* failed is whether the download or the request raised
scan_schedule_image(u, result, failed) ==
    /\ HandlerIdle
    /\ HandlerFor(u, "photo", "") = "scan_schedule_image"
    /\ conv' = [conv EXCEPT ![u].scan = END]
    /\ LET parsed == parse_shifts_from_text(result) IN
       IF failed
       THEN UNCHANGED <<user_data, chat>>
       ELSE IF Contains(result, "lo nimtsa")
       THEN UNCHANGED <<user_data, chat>>
       ELSE IF parsed = <<>>
       THEN UNCHANGED <<user_data, chat>>
       ELSE /\ user_data' = [user_data EXCEPT ![u] = Put(@, "scanned_shifts", parsed)]
            /\ chat' = [chat EXCEPT ![u] = @ \cup {ScanMessage(parsed)}]
    /\ UNCHANGED <<now, approved_users, pending, jobs, tasks, acked, committed>>

\* set_shifts_start: the user's data afterwards
set_shifts_start(u) ==
    IF is_approved(u) THEN Put(user_data[u], "session_shifts", <<>>) ELSE user_data[u]

\* /set_shifts
CmdSetShifts(u) ==
    /\ HandlerIdle
    /\ HandlerFor(u, "command", "/set_shifts") = "set_shifts_start"
    /\ user_data' = [user_data EXCEPT ![u] = set_shifts_start(u)]
    /\ conv' = [conv EXCEPT ![u].set_shifts =
                    IF is_approved(u) THEN WAITING_FOR_SHIFTS ELSE END]
    /\ UNCHANGED <<now, approved_users, pending, jobs, chat, tasks, acked, committed>>

AddMoreMessage == Message(ADD_MORE_KEYBOARD, <<>>)

set_shifts_receive(u, text) ==
    /\ HandlerIdle
    /\ HandlerFor(u, "text", "") = "set_shifts_receive"
    /\ LET parsed == parse_shifts_from_text(text)
           session == MergeSession(Get(user_data[u], "session_shifts", <<>>), parsed)
       IN  IF parsed = <<>>
           THEN /\ UNCHANGED <<user_data, conv, chat>>
           ELSE /\ user_data' = [user_data EXCEPT ![u] = Put(@, "session_shifts", session)]
                /\ conv' = [conv EXCEPT ![u].set_shifts = WAITING_FOR_MORE_SHIFTS]
                /\ chat' = [chat EXCEPT ![u] = @ \cup {AddMoreMessage}]
    /\ UNCHANGED <<now, approved_users, pending, jobs, tasks, acked, committed>>

set_shifts_more(u, text) ==
    /\ HandlerIdle
    /\ HandlerFor(u, "text", "") = "set_shifts_more"
    /\ LET parsed == parse_shifts_from_text(text)
           session == MergeSession(Get(user_data[u], "session_shifts", <<>>), parsed)
       IN  IF parsed = <<>>
           THEN /\ UNCHANGED user_data
           ELSE /\ user_data' = [user_data EXCEPT ![u] = Put(@, "session_shifts", session)]
    /\ chat' = [chat EXCEPT ![u] = @ \cup {AddMoreMessage}]
    /\ UNCHANGED <<now, approved_users, pending, jobs, conv, tasks, acked, committed>>

\* the jobs finalize_shifts and confirm_scan remove: job.name.startswith(prefix)
UserShiftJobs(q, user_id) == {j \in DOMAIN q : StartsWith(j.name, ShiftPrefix(user_id))}

\* finalize_shifts without the loop that removes the user's jobs;
\* C11_DoneReplaces tells the two apart
FinalizeAdds(q, t, user_id, session) == AddDayShifts(q, t, user_id, session)

\* finalize_shifts with a session that is not empty: the queue afterwards
finalize_shifts(q, t, user_id, session) ==
    AddDayShifts(RemoveJobs(q, UserShiftJobs(q, user_id)), t, user_id, session)

\* update_start: the state it returns
update_start(u) == IF is_approved(u) THEN WAITING_FOR_UPDATE ELSE END

\* /update
CmdUpdate(u) ==
    /\ HandlerIdle
    /\ HandlerFor(u, "command", "/update") = "update_start"
    /\ conv' = [conv EXCEPT ![u].update = update_start(u)]
    /\ UNCHANGED <<now, approved_users, pending, jobs, user_data, chat, tasks,
                   acked, committed>>

\* [t for t in days_text.split() if t in DAY_MAP]
RECURSIVE DaysIn(_)
DaysIn(tokens) ==
    IF Len(tokens) = 0 THEN <<>>
    ELSE (IF tokens[1] \in DOMAIN DAY_MAP THEN <<tokens[1]>> ELSE <<>>)
         \o DaysIn(Tail(tokens))

RemoveMessage(days) ==
    Message({"confirm_remove", "cancel_action"}, [i \in 1..Len(days) |-> <<days[i]>>])
UpdateMessage(parsed) == Message({"confirm_update", "cancel_action"}, parsed)

update_receive(u, message_text) ==
    /\ HandlerIdle
    /\ HandlerFor(u, "text", "") = "update_receive"
    /\ LET text == Strip(message_text)
           days_to_remove == DaysIn(Split(Strip(Remove(text, "haser"))))
           parsed == parse_shifts_from_text(text)
       IN  IF StartsWith(text, "haser")
           THEN IF days_to_remove = <<>>
                THEN /\ UNCHANGED <<user_data, conv, chat>>
                ELSE /\ user_data' = [user_data EXCEPT ![u] =
                            Put(Put(@, "pending_remove_days", days_to_remove),
                                "pending_user_id", u)]
                     /\ conv' = [conv EXCEPT ![u].update = END]
                     /\ chat' = [chat EXCEPT ![u] = @ \cup {RemoveMessage(days_to_remove)}]
           ELSE IF parsed = <<>>
                THEN /\ UNCHANGED <<user_data, conv, chat>>
                ELSE /\ user_data' = [user_data EXCEPT ![u] =
                            Put(Put(@, "pending_update_shifts", parsed),
                                "pending_user_id", u)]
                     /\ conv' = [conv EXCEPT ![u].update = END]
                     /\ chat' = [chat EXCEPT ![u] = @ \cup {UpdateMessage(parsed)}]
    /\ UNCHANGED <<now, approved_users, pending, jobs, tasks, acked, committed>>

\* /list_shifts (the command does not test is_approved)
list_shifts(u) ==
    /\ HandlerIdle
    /\ HandlerFor(u, "command", "/list_shifts") = "list_shifts"
    /\ UNCHANGED <<now, approved_users, pending, jobs, user_data, conv, chat,
                   tasks, acked, committed>>

\* a message no handler of main() takes: nothing happens
Unhandled(u, kind, upd) ==
    /\ HandlerIdle
    /\ HandlerFor(u, kind, upd) = "none"
    /\ UNCHANGED <<now, approved_users, pending, jobs, user_data, conv, chat,
                   tasks, acked, committed>>

----------------------------------------------------------------------------
(* button_callback: the branches after the access test *)

\* "if data == "confirm_scan"": lines 604-617
ConfirmScan(u, m, data) ==
    /\ CanPress(u, m, data)
    /\ PassesAccess(u, data)
    /\ data = "confirm_scan"
    /\ LET parsed == Get(user_data[u], "scanned_shifts", <<>>) IN
       /\ jobs' = AddDayShifts(RemoveJobs(jobs, UserShiftJobs(jobs, u)), now, u, parsed)
       /\ committed' = [committed EXCEPT ![u] = Pairs(parsed)]
    /\ chat' = Edited(chat, u, m)
    /\ UNCHANGED <<now, approved_users, pending, user_data, conv, tasks, acked>>

\* "if data == "cancel_scan""
CancelScan(u, m, data) ==
    /\ CanPress(u, m, data)
    /\ PassesAccess(u, data)
    /\ data = "cancel_scan"
    /\ chat' = Edited(chat, u, m)
    /\ UNCHANGED <<now, approved_users, pending, jobs, user_data, conv, tasks,
                   acked, committed>>

\* "if data == "add_more_shifts""
AddMore(u, m, data) ==
    /\ CanPress(u, m, data)
    /\ PassesAccess(u, data)
    /\ data = "add_more_shifts"
    /\ chat' = Edited(chat, u, m)
    /\ UNCHANGED <<now, approved_users, pending, jobs, user_data, conv, tasks,
                   acked, committed>>

\* "if data == "done_shifts"": finalize_shifts, lines 408-424
Done(u, m, data) ==
    /\ CanPress(u, m, data)
    /\ PassesAccess(u, data)
    /\ data = "done_shifts"
    /\ LET session == Get(user_data[u], "session_shifts", <<>>) IN
       IF session = <<>>
       THEN /\ UNCHANGED <<jobs, user_data, chat, committed>>
       ELSE /\ jobs' = finalize_shifts(jobs, now, u, session)
            /\ user_data' = [user_data EXCEPT ![u] = Put(@, "session_shifts", <<>>)]
            /\ chat' = Edited(chat, u, m)
            /\ committed' = [committed EXCEPT ![u] = Pairs(session)]
    /\ UNCHANGED <<now, approved_users, pending, conv, tasks, acked>>

\* "if data == "menu_main""
MenuMain(u, m, data) ==
    /\ CanPress(u, m, data)
    /\ PassesAccess(u, data)
    /\ data = "menu_main"
    /\ UNCHANGED <<now, approved_users, pending, jobs, user_data, conv, chat,
                   tasks, acked, committed>>

\* "elif data == "menu_scan"": scan_schedule_start is called, and the state
\* it returns is dropped
MenuScan(u, m, data) ==
    /\ CanPress(u, m, data)
    /\ PassesAccess(u, data)
    /\ data = "menu_scan"
    /\ UNCHANGED <<now, approved_users, pending, jobs, user_data, conv, chat,
                   tasks, acked, committed>>

\* "elif data == "menu_set_shifts"": set_shifts_start is called, and the state
\* it returns is dropped
MenuSetShifts(u, m, data) ==
    /\ CanPress(u, m, data)
    /\ PassesAccess(u, data)
    /\ data = "menu_set_shifts"
    /\ user_data' = [user_data EXCEPT ![u] = set_shifts_start(u)]
    /\ UNCHANGED <<now, approved_users, pending, jobs, conv, chat, tasks, acked,
                   committed>>

\* "elif data == "menu_update"": update_start is called, and the state it
\* returns is dropped
MenuUpdate(u, m, data) ==
    /\ CanPress(u, m, data)
    /\ PassesAccess(u, data)
    /\ data = "menu_update"
    /\ UNCHANGED <<now, approved_users, pending, jobs, user_data, conv, chat,
                   tasks, acked, committed>>

\* "elif data == "menu_list""
MenuList(u, m, data) ==
    /\ CanPress(u, m, data)
    /\ PassesAccess(u, data)
    /\ data = "menu_list"
    /\ UNCHANGED <<now, approved_users, pending, jobs, user_data, conv, chat,
                   tasks, acked, committed>>

\* the loop of the confirm_update branch without _remove_day_jobs;
\* C12_UpdateListedDays tells the two apart
RECURSIVE UpdateAdds(_, _, _, _)
UpdateAdds(q, t, uid, parsed) ==
    IF Len(parsed) = 0 THEN q
    ELSE UpdateAdds(
             _add_day_shift(q, t, uid, parsed[1][1], parsed[1][2], parsed[1][3]),
             t, uid, Tail(parsed))

\* the loop of the confirm_update branch: lines 669-671
RECURSIVE UpdateDays(_, _, _, _)
UpdateDays(q, t, uid, parsed) ==
    IF Len(parsed) = 0 THEN q
    ELSE UpdateDays(
             _add_day_shift(_remove_day_jobs(q, uid, parsed[1][1]).queue, t, uid,
                            parsed[1][1], parsed[1][2], parsed[1][3]),
             t, uid, Tail(parsed))

\* the (day, shift) pairs committed after an update
RECURSIVE UpdatePairs(_, _)
UpdatePairs(pairs, parsed) ==
    IF Len(parsed) = 0 THEN pairs
    ELSE UpdatePairs({p \in pairs : p[1] # parsed[1][1]}
                        \cup {<<parsed[1][1], parsed[1][2]>>},
                     Tail(parsed))

\* "elif data == "confirm_update"": lines 666-673
ConfirmUpdate(u, m, data) ==
    /\ CanPress(u, m, data)
    /\ PassesAccess(u, data)
    /\ data = "confirm_update"
    /\ LET parsed == Get(user_data[u], "pending_update_shifts", <<>>)
           uid == Get(user_data[u], "pending_user_id", u)
       IN  /\ jobs' = UpdateDays(jobs, now, uid, parsed)
           /\ committed' = [committed EXCEPT ![uid] = UpdatePairs(@, parsed)]
    /\ chat' = Edited(chat, u, m)
    /\ UNCHANGED <<now, approved_users, pending, user_data, conv, tasks, acked>>

\* the loop of the confirm_remove branch: the queue afterwards, and the days
\* removed and not found
RECURSIVE RemoveDays(_, _, _)
RemoveDays(q, uid, days) ==
    IF Len(days) = 0 THEN [queue |-> q, removed |-> <<>>, not_found |-> <<>>]
    ELSE LET r == _remove_day_jobs(q, uid, days[1])
             rest == RemoveDays(r.queue, uid, Tail(days))
         IN  [queue |-> rest.queue,
              removed |-> (IF r.removed THEN <<days[1]>> ELSE <<>>) \o rest.removed,
              not_found |-> (IF r.removed THEN <<>> ELSE <<days[1]>>) \o rest.not_found]

\* "elif data == "confirm_remove"": lines 675-684
ConfirmRemove(u, m, data) ==
    /\ CanPress(u, m, data)
    /\ PassesAccess(u, data)
    /\ data = "confirm_remove"
    /\ LET days == Get(user_data[u], "pending_remove_days", <<>>)
           uid == Get(user_data[u], "pending_user_id", u)
           r == RemoveDays(jobs, uid, days)
       IN  /\ jobs' = r.queue
           /\ committed' = [committed EXCEPT ![uid] =
                               {p \in @ : \A i \in 1..Len(days) : p[1] # days[i]}]
    /\ chat' = Edited(chat, u, m)
    /\ UNCHANGED <<now, approved_users, pending, user_data, conv, tasks, acked>>

\* a cancel_action branch that removes the user's shift timers;
\* C7_CommitOnConfirmation tells the two apart
CancelActionClears(u, m, data) ==
    /\ CanPress(u, m, data)
    /\ PassesAccess(u, data)
    /\ data = "cancel_action"
    /\ jobs' = RemoveJobs(jobs, UserShiftJobs(jobs, u))
    /\ chat' = Edited(chat, u, m)
    /\ UNCHANGED <<now, approved_users, pending, user_data, conv, tasks, acked,
                   committed>>

\* "elif data == "cancel_action""
CancelAction(u, m, data) ==
    /\ CanPress(u, m, data)
    /\ PassesAccess(u, data)
    /\ data = "cancel_action"
    /\ chat' = Edited(chat, u, m)
    /\ UNCHANGED <<now, approved_users, pending, jobs, user_data, conv, tasks,
                   acked, committed>>

----------------------------------------------------------------------------
(* The inputs of the model and its specifications *)

\* the text messages users send
Texts == {"sheni boker", "sheni:layla\nrishon boker kfula", "sheni layla sheni boker",
          "haser sheni", "shalom"}

\* what analyze_schedule_image answers
ScanResults == {"lo nimtsa", "sheni:boker\nsheni:tsohorayim"}

\* the messages whose buttons a user can press
Pressable(u) ==
    chat[u] \cup {Message(MenuButtons, <<>>)} \cup (IF u # ADMIN_ID THEN Forged ELSE {})

\* /start, /help and the access buttons, for the users U
AccessNext(U) ==
    \/ \E u \in U : start(u)
    \/ \E u \in U : help_command(u)
    \/ \E u \in U : \E m \in Pressable(u) : \E data \in m.buttons : Approve(u, m, data)
    \/ \E u \in U : \E m \in Pressable(u) : \E data \in m.buttons : Deny(u, m, data)
    \/ \E u \in U : \E m \in Pressable(u) : \E data \in m.buttons : NotApproved(u, m, data)

\* the test reminder and the confirmation button, for the users U
TestNext(U) ==
    \/ \E u \in U : test_reminder(u)
    \/ \E u \in U : \E m \in Pressable(u) : \E data \in m.buttons : MenuTest(u, m, data)
    \/ \E u \in U : \E m \in Pressable(u) : \E data \in m.buttons : Confirm(u, m, data)
    \/ \E t \in DOMAIN tasks : test_reminder_resume(t)

\* the job queue runs the nudge timers
NudgeNext ==
    \/ \E j \in DOMAIN jobs : nudge_reminder(j)
    \/ \E t \in DOMAIN tasks : nudge_reminder_resume(t)

\* time passes and the job queue runs the shift timers
ShiftTimerNext ==
    \/ Tick
    \/ \E j \in DOMAIN jobs : send_reminder(j)
    \/ \E t \in DOMAIN tasks : send_reminder_resume(t)

\* the manual flow, for the users U and the texts T
SetShiftsNext(U, T) ==
    \/ \E u \in U : CmdSetShifts(u)
    \/ \E u \in U, text \in T : set_shifts_receive(u, text)
    \/ \E u \in U, text \in T : set_shifts_more(u, text)
    \/ \E u \in U : \E m \in Pressable(u) : \E data \in m.buttons : MenuSetShifts(u, m, data)
    \/ \E u \in U : \E m \in Pressable(u) : \E data \in m.buttons : AddMore(u, m, data)
    \/ \E u \in U : \E m \in Pressable(u) : \E data \in m.buttons : Done(u, m, data)

\* the update flow, for the users U and the texts T
UpdateNext(U, T) ==
    \/ \E u \in U : CmdUpdate(u)
    \/ \E u \in U, text \in T : update_receive(u, text)
    \/ \E u \in U : \E m \in Pressable(u) : \E data \in m.buttons : MenuUpdate(u, m, data)
    \/ \E u \in U : \E m \in Pressable(u) : \E data \in m.buttons : ConfirmUpdate(u, m, data)
    \/ \E u \in U : \E m \in Pressable(u) : \E data \in m.buttons : ConfirmRemove(u, m, data)
    \/ \E u \in U : \E m \in Pressable(u) : \E data \in m.buttons : CancelAction(u, m, data)

\* the scan flow, for the users U, the names T and the answers R
ScanNext(U, T, R) ==
    \/ \E u \in U : CmdScan(u)
    \/ \E u \in U, text \in T : scan_schedule_name(u, text)
    \/ \E u \in U, result \in R, failed \in BOOLEAN : scan_schedule_image(u, result, failed)
    \/ \E u \in U : \E m \in Pressable(u) : \E data \in m.buttons : MenuScan(u, m, data)
    \/ \E u \in U : \E m \in Pressable(u) : \E data \in m.buttons : ConfirmScan(u, m, data)
    \/ \E u \in U : \E m \in Pressable(u) : \E data \in m.buttons : CancelScan(u, m, data)

\* what changes nothing: the list, the menu, and the messages no handler takes
OtherNext(U) ==
    \/ \E u \in U : list_shifts(u)
    \/ \E u \in U : \E m \in Pressable(u) : \E data \in m.buttons : MenuList(u, m, data)
    \/ \E u \in U : \E m \in Pressable(u) : \E data \in m.buttons : MenuMain(u, m, data)
    \/ \E u \in U, upd \in {"/scan", "/set_shifts", "/update"} : Unhandled(u, "command", upd)
    \/ \E u \in U, kind \in {"text", "photo"} : Unhandled(u, kind, kind)

\* The whole bot: every user, every input.
Next ==
    \/ AccessNext(Users)
    \/ TestNext(Users)
    \/ NudgeNext
    \/ ShiftTimerNext
    \/ SetShiftsNext(Users, Texts)
    \/ UpdateNext(Users, Texts)
    \/ ScanNext(Users, Texts, ScanResults)
    \/ OtherNext(Users)

Spec == Init /\ [][Next]_vars

\* Two users, access and test reminders: what one user's buttons do to the
\* other's reminders.
NextUsers ==
    \/ AccessNext(Users)
    \/ TestNext(Users)
    \/ NudgeNext

SpecUsers == Init /\ [][NextUsers]_vars

\* One user who commits a shift and is reminded of it as time passes.
NextRemind ==
    \/ SetShiftsNext({ADMIN_ID}, {"sheni boker"})
    \/ TestNext({ADMIN_ID})
    \/ NudgeNext
    \/ ShiftTimerNext

SpecRemind == Init /\ [][NextRemind]_vars

\* One user and the three flows that change the schedule, no timer running.
NextFlow ==
    \/ SetShiftsNext({ADMIN_ID}, {"sheni boker", "shalom"})
    \/ UpdateNext({ADMIN_ID}, {"sheni:layla\nrishon boker kfula",
                               "sheni layla sheni boker", "haser sheni"})
    \/ ScanNext({ADMIN_ID}, {"shalom"}, ScanResults)
    \/ OtherNext({ADMIN_ID})

SpecFlow == Init /\ [][NextFlow]_vars

\* Two users whose ids share a prefix, each with a schedule of their own.
NextPair ==
    \/ AccessNext(Users)
    \/ SetShiftsNext(Users, {"sheni boker"})
    \/ UpdateNext({ADMIN_ID}, {"sheni layla", "haser sheni"})
    \/ ScanNext({ADMIN_ID}, {"shalom"}, {"sheni:boker"})

SpecPair == Init /\ [][NextPair]_vars

\* Scheduling as a function of the instant: the bot is started at any of these
\* instants of the week, and one shift is scheduled on the empty queue.
TimesOfDay ==
    {0, 6 * HOUR + 54 * MINUTE + 59, 6 * HOUR + 55 * MINUTE,
     6 * HOUR + 55 * MINUTE + 30, 12 * HOUR, 22 * HOUR + 55 * MINUTE,
     23 * HOUR + 59 * MINUTE + 59}

Instants == {d * DAY + tod : d \in 0..6, tod \in TimesOfDay}

InitTime == \E t \in Instants : Started(t)

AddShift(day_str, shift_str) ==
    /\ jobs = EmptyQueue
    /\ jobs' = _add_day_shift(jobs, now, ADMIN_ID, day_str, shift_str, DAY_MAP[day_str])
    /\ UNCHANGED <<now, approved_users, pending, user_data, conv, chat, tasks,
                   acked, committed>>

NextTime == \E day_str \in DOMAIN DAY_MAP, shift_str \in DOMAIN SHIFTS : AddShift(day_str, shift_str)

SpecTime == InitTime /\ [][NextTime]_vars

\* The instant as a function of the time tuple: _schedule_shift_reminder is
\* called once on the empty queue, for any weekday and any of these times.
Hours == {0, 1, 7, 23}

Minutes == {0, 4, 5, 59}

TimeTuples == Hours \X Minutes

ScheduleAt(day_str, time_tuple) ==
    /\ jobs = EmptyQueue
    /\ jobs' = _schedule_shift_reminder(jobs, now, ADMIN_ID, DAY_MAP[day_str], time_tuple,
                                        "boker", "knisa",
                                        ShiftPrefix(ADMIN_ID) \o "start_" \o day_str)
    /\ UNCHANGED <<now, approved_users, pending, user_data, conv, chat, tasks,
                   acked, committed>>

NextLead == \E day_str \in DOMAIN DAY_MAP, time_tuple \in TimeTuples : ScheduleAt(day_str, time_tuple)

SpecLead == InitTime /\ [][NextLead]_vars

\* Parsing as a function of the text: texts of up to MaxTokens words, put
\* together with the separators; the text and what parse_shifts_from_text
\* returns for it are kept in the admin's user_data; one text is parsed in a
\* behaviour.
MaxTokens == 4

Vocabulary == {"sheni", "rishon", "boker", "kfula"}

Separators == {" ", ":", "\n"}

RECURSIVE TextsOf(_)
TextsOf(n) ==
    IF n = 1 THEN Vocabulary
    ELSE {t \o sep \o w : t \in TextsOf(n - 1), sep \in Separators, w \in Vocabulary}

ParseTexts == UNION {TextsOf(n) : n \in 1..MaxTokens}

ParseText(text) ==
    /\ "text" \notin DOMAIN user_data[ADMIN_ID]
    /\ user_data' = [user_data EXCEPT ![ADMIN_ID] =
                        Put(Put(@, "text", text), "parsed", parse_shifts_from_text(text))]
    /\ UNCHANGED <<now, approved_users, pending, jobs, conv, chat, tasks, acked,
                   committed>>

NextParse == \E text \in ParseTexts : ParseText(text)

SpecParse == Init /\ [][NextParse]_vars

----------------------------------------------------------------------------
(* Properties: the reminders *)

\* the reminders that were sent and not confirmed since
Unconfirmed == {job_name \in DOMAIN acked : ~acked[job_name]}

\* C1: once a reminder has fired or a test reminder was started, and until
\* its confirmation button is pressed, nudging goes on: a nudge timer for it
\* is in the queue, or a reminder of it is at its send and about to register
\* one.
C1_NudgingGoesOn == \A job_name \in Unconfirmed : Chains(job_name) >= 1

\* C2: after confirm_<job_name> was processed, and until the reminder fires
\* anew, no run of nudge_reminder sends a message for job_name, whatever was
\* suspended at its send when the button was pressed.
C2_NoNudgeAfterConfirm ==
    [][\A j \in DOMAIN jobs :
          (nudge_reminder(j) /\ tasks' # tasks)
              => ~Get(acked, j.data.job_name, FALSE)]_vars

\* a nudge timer registered after the confirmation, by a reminder that was
\* suspended at its send when the button was pressed
C2_NudgeTimerAfterConfirm ==
    \E j \in DOMAIN jobs :
        j.callback = "nudge_reminder" /\ Get(acked, j.data.job_name, FALSE)

\* whether a shift timer, or a send_reminder about to nudge, stands for the
\* part ("start_" or "end_") of the shift p = <<day, shift>> of user u
Scheduled(u, part, p) ==
    LET job_name == ShiftPrefix(u) \o part \o p[1] IN
    \/ \E j \in Dated(jobs) : j.name = job_name /\ j.data.shift = p[2]
    \/ \E t \in DOMAIN tasks : t.fn = "send_reminder" /\ t.data.job_name = job_name

\* C3: the schedule recurs weekly: a shift the user committed, and did not
\* remove or replace, keeps a start timer and an end timer after its
\* reminders have fired.
C3_ShiftStaysScheduled ==
    \A u \in Users : \A p \in committed[u] :
        Scheduled(u, "start_", p) /\ Scheduled(u, "end_", p)

----------------------------------------------------------------------------
(* Properties: the instants of the timers *)

\* the day a shift timer is named after
DayOf(j) ==
    CHOOSE d \in DOMAIN DAY_MAP :
        j.name \in {ShiftPrefix(j.data.user_id) \o "start_" \o d,
                    ShiftPrefix(j.data.user_id) \o "end_" \o d}

\* the time of the SHIFTS table a shift timer reminds of
TimeOf(j) ==
    IF j.data.action = "knisa" THEN SHIFTS[j.data.shift].start
                               ELSE SHIFTS[j.data.shift].end

\* the seconds into the day of that time less the five minutes
ReminderTime(j) == TimeOf(j)[1] * HOUR + TimeOf(j)[2] * MINUTE - LeadMinutes * MINUTE

\* C4: the timer _schedule_shift_reminder registers is at the earliest instant
\* not before now on the requested weekday at the shift time less 5 minutes:
\* not in the past, less than 8 days ahead, on that weekday.
C4_NextOccurrence ==
    \A j \in Dated(jobs) :
        /\ j.when >= now
        /\ j.when < now + 8 * DAY
        /\ Weekday(j.when) = DAY_MAP[DayOf(j)]
        /\ TimeOfDay(j.when) = ReminderTime(j)
        /\ j.when - WEEK < now

\* a timer that was moved to the following week
C4_NextWeek == \E j \in Dated(jobs) : j.when > now + 6 * DAY + 23 * HOUR

\* a shift whose end is on the day after its start
CrossesMidnight(shift_str) == SHIFTS[shift_str].end[1] <= SHIFTS[shift_str].start[1]

\* C5: the exit reminder of a shift committed for day D is 5 minutes before
\* the end of that shift: on D, or on the day after D when the shift crosses
\* midnight.
C5_ExitAtEndOfShift ==
    \A j \in Dated(jobs) :
        j.data.action = "yetsia" =>
            /\ TimeOfDay(j.when) = ReminderTime(j)
            /\ Weekday(j.when) =
                  (DAY_MAP[DayOf(j)] + (IF CrossesMidnight(j.data.shift) THEN 1 ELSE 0)) % 7

----------------------------------------------------------------------------
(* Properties: the flows *)

\* the timers of the queue q named part day for user u that carry shift
TimersOf(q, u, part, p) ==
    {j \in DOMAIN q : /\ j.name = ShiftPrefix(u) \o part \o p[1]
                      /\ j.data.shift = p[2]}

\* C6: every committed shift has exactly two timers of the committing user:
\* shift_<user>_start_<day> with the entry action and shift_<user>_end_<day>
\* with the exit action, both with the shift's name; and there is no other
\* shift timer.  (The lines of one input name distinct day and shift pairs.)
C6_TwoTimersPerShift ==
    /\ \A u \in Users : \A p \in committed[u] :
          /\ Cardinality(TimersOf(jobs, u, "start_", p)) = 1
          /\ Cardinality(TimersOf(jobs, u, "end_", p)) = 1
          /\ \A j \in TimersOf(jobs, u, "start_", p) :
                jobs[j] = 1 /\ j.data.action = "knisa" /\ j.data.user_id = u
          /\ \A j \in TimersOf(jobs, u, "end_", p) :
                jobs[j] = 1 /\ j.data.action = "yetsia" /\ j.data.user_id = u
    /\ \A j \in Dated(jobs) :
          \E u \in Users : \E p \in committed[u] :
              j \in TimersOf(jobs, u, "start_", p) \cup TimersOf(jobs, u, "end_", p)

\* the three ways to commit have each left their shifts: two days from an
\* update, or two shifts of one day from a scan
C6_SeveralCommitted ==
    \E u \in Users : Cardinality(committed[u]) >= 2 /\ BagCardinality(jobs) >= 4

\* the buttons that commit
CommitButtons == {"done_shifts", "confirm_update", "confirm_remove", "confirm_scan"}

\* a step that is the press of a button that commits
CommitPress ==
    \E u \in Users : \E m \in Pressable(u) : \E data \in m.buttons \cap CommitButtons :
        \/ Done(u, m, data)
        \/ ConfirmUpdate(u, m, data)
        \/ ConfirmRemove(u, m, data)
        \/ ConfirmScan(u, m, data)

\* C7: collect, confirm, commit: the timers change only at the press of
\* done_shifts, confirm_update, confirm_remove or confirm_scan; a text, a
\* photo, cancel_action and cancel_scan leave them as they are.
C7_CommitOnConfirmation ==
    [][/\ jobs' # jobs => CommitPress
       /\ \A u \in Users, text \in Texts :
             (set_shifts_receive(u, text) \/ set_shifts_more(u, text)
                 \/ update_receive(u, text)) => jobs' = jobs
       /\ \A u \in Users, result \in ScanResults, failed \in BOOLEAN :
             scan_schedule_image(u, result, failed) => jobs' = jobs
       /\ \A u \in Users : \A m \in Pressable(u) : \A data \in m.buttons :
             (CancelAction(u, m, data) \/ CancelScan(u, m, data)) => jobs' = jobs]_vars

\* shifts were collected and can be cancelled while timers are in the queue
C7_CollectedOverTimers ==
    /\ jobs # EmptyQueue
    /\ \E u \in Users : \E m \in chat[u] :
          "cancel_action" \in m.buttons \/ "cancel_scan" \in m.buttons

OwnedBy(q, u) == [j \in {k \in DOMAIN q : k.data.user_id = u} |-> q[j]]

\* C9: the schedule is per user: when user A presses done_shifts,
\* confirm_update, confirm_remove or confirm_scan, the timers of every other
\* user B stay as they are, also when the id of one is a prefix of the other's.
C9_PerUser ==
    [][\A A \in Users : \A m \in Pressable(A) : \A data \in m.buttons \cap CommitButtons :
          (Done(A, m, data) \/ ConfirmUpdate(A, m, data)
              \/ ConfirmRemove(A, m, data) \/ ConfirmScan(A, m, data))
          => \A B \in Users \ {A} : OwnedBy(jobs', B) = OwnedBy(jobs, B)]_vars

\* both users have timers, and the admin has replaced a day of theirs
C9_BothScheduled ==
    /\ \A u \in Users : OwnedBy(jobs, u) # EmptyBag
    /\ <<"sheni", "layla">> \in committed[ADMIN_ID]

\* C10: after an approved user has started the manual flow, with /set_shifts
\* or with the menu button menu_set_shifts, the next text message is taken by
\* set_shifts_receive.
C10_BothEntryPoints ==
    [][\A u \in Users : \A m \in Pressable(u) : \A data \in m.buttons :
          is_approved(u) /\ (CmdSetShifts(u) \/ MenuSetShifts(u, m, data))
              => (HandlerFor(u, "text", "") = "set_shifts_receive")']_vars

----------------------------------------------------------------------------
(* Properties: what each confirmation does to the schedule *)

\* the timers of user u in the queue q are exactly one start timer and one
\* end timer for each entry of shifts, a list of (day, shift, day_num)
ExactlyTimers(q, u, shifts) ==
    /\ \A i \in 1..Len(shifts) :
          LET p == <<shifts[i][1], shifts[i][2]>> IN
          /\ Cardinality(TimersOf(q, u, "start_", p)) = 1
          /\ Cardinality(TimersOf(q, u, "end_", p)) = 1
          /\ \A j \in TimersOf(q, u, "start_", p) \cup TimersOf(q, u, "end_", p) :
                q[j] = 1 /\ j.when = ShiftTarget(now, shifts[i][3], TimeOf(j))
    /\ \A j \in DOMAIN OwnedBy(q, u) :
          \E i \in 1..Len(shifts) :
              LET p == <<shifts[i][1], shifts[i][2]>> IN
              j \in TimersOf(q, u, "start_", p) \cup TimersOf(q, u, "end_", p)

\* C11: done_shifts with a session that is not empty replaces the schedule:
\* the user's timers are then exactly the start and end timers of the
\* session, and session_shifts is []; with an empty session no timer changes
\* and no message is sent or edited.
C11_DoneReplaces ==
    [][\A u \in Users : \A m \in Pressable(u) : \A data \in m.buttons :
          Done(u, m, data) =>
              LET session == Get(user_data[u], "session_shifts", <<>>) IN
              IF session = <<>>
              THEN jobs' = jobs /\ chat' = chat
              ELSE /\ ExactlyTimers(jobs', u, session)
                   /\ user_data'[u]["session_shifts"] = <<>>]_vars

\* a session can be committed while the user has timers of a day that is not
\* in it
C11_OtherDayScheduled ==
    \E u \in Users :
        /\ AddMoreMessage \in chat[u]
        /\ Get(user_data[u], "session_shifts", <<>>) # <<>>
        /\ \E j \in DOMAIN OwnedBy(jobs, u) :
              \A i \in 1..Len(user_data[u]["session_shifts"]) :
                  DayOf(j) # user_data[u]["session_shifts"][i][1]

\* the days of a list of (day, shift, day_num)
ListedDays(shifts) == {shifts[i][1] : i \in 1..Len(shifts)}

\* the entries of the list that are the last of their day
LastEntries(shifts) ==
    {i \in 1..Len(shifts) : \A k \in (i + 1)..Len(shifts) : shifts[k][1] # shifts[i][1]}

\* the timers of user u in q for the days in days
OnDays(q, u, days) ==
    [j \in {k \in DOMAIN OwnedBy(q, u) : DayOf(k) \in days} |-> q[j]]

\* C12: confirm_update touches the listed days only: for each day of the
\* pending update the user's timers of that day become the start and end
\* timer of the new shift, the last entry of a day listed twice, and the
\* timers of all other days stay as they are.
C12_UpdateListedDays ==
    [][\A u \in Users : \A m \in Pressable(u) : \A data \in m.buttons :
          ConfirmUpdate(u, m, data) =>
              LET parsed == Get(user_data[u], "pending_update_shifts", <<>>)
                  days == ListedDays(parsed)
                  last == [i \in 1..Cardinality(LastEntries(parsed)) |->
                              parsed[CHOOSE k \in LastEntries(parsed) :
                                  Cardinality({n \in LastEntries(parsed) : n < k}) = i - 1]]
              IN  /\ ExactlyTimers(OnDays(jobs', u, days), u, last)
                  /\ OnDays(jobs', u, DOMAIN DAY_MAP \ days)
                        = OnDays(jobs, u, DOMAIN DAY_MAP \ days)]_vars

\* an update that lists a day twice can be confirmed while the user has
\* timers of that day and of a day it does not list
C12_UpdateOverSchedule ==
    \E u \in Users :
        LET parsed == Get(user_data[u], "pending_update_shifts", <<>>) IN
        /\ UpdateMessage(parsed) \in chat[u]
        /\ Cardinality(ListedDays(parsed)) < Len(parsed)
        /\ OnDays(jobs, u, ListedDays(parsed)) # EmptyBag
        /\ OnDays(jobs, u, DOMAIN DAY_MAP \ ListedDays(parsed)) # EmptyBag

\* the elements of a list
Range(seq) == {seq[i] : i \in 1..Len(seq)}

\* C13: confirm_remove removes both timers of every listed day that has a
\* shift and reports the day as removed, reports a listed day without a
\* timer as not found, and leaves the timers of all other days as they are.
C13_RemoveListedDays ==
    [][\A u \in Users : \A m \in Pressable(u) : \A data \in m.buttons :
          ConfirmRemove(u, m, data) =>
              LET days == Get(user_data[u], "pending_remove_days", <<>>)
                  report == RemoveDays(jobs, u, days)
              IN  /\ OnDays(jobs', u, Range(days)) = EmptyBag
                  /\ OnDays(jobs', u, DOMAIN DAY_MAP \ Range(days))
                        = OnDays(jobs, u, DOMAIN DAY_MAP \ Range(days))
                  /\ \A d \in Range(days) :
                        IF OnDays(jobs, u, {d}) # EmptyBag
                        THEN d \in Range(report.removed)
                        ELSE d \in Range(report.not_found)
                                /\ d \notin Range(report.removed)]_vars

\* a removal can be confirmed while the user has timers of the listed day
\* and of another day
C13_RemoveOverSchedule ==
    \E u \in Users :
        LET days == Get(user_data[u], "pending_remove_days", <<>>) IN
        /\ RemoveMessage(days) \in chat[u]
        /\ OnDays(jobs, u, Range(days)) # EmptyBag
        /\ OnDays(jobs, u, DOMAIN DAY_MAP \ Range(days)) # EmptyBag

----------------------------------------------------------------------------
(* Properties: the routing of messages *)

\* C14: after an approved user has sent /update, their next text message is
\* taken by update_receive, whatever flows they used before.
C14_UpdateTakesNextText ==
    [][\A u \in Users :
          is_approved(u) /\ CmdUpdate(u)
              => (HandlerFor(u, "text", "") = "update_receive")']_vars

\* C15: every /set_shifts command of an approved user is taken by
\* set_shifts_start, which empties session_shifts and puts the conversation
\* in WAITING_FOR_SHIFTS, also after an earlier flow was committed or
\* abandoned.
C15_SetShiftsRestarts ==
    \A u \in Users :
        is_approved(u) => HandlerFor(u, "command", "/set_shifts") = "set_shifts_start"

----------------------------------------------------------------------------
(* Properties: the confirmation messages *)

\* the days a removal message lists
DaysOf(m) == [i \in 1..Len(m.list) |-> m.list[i][1]]

\* C16: a press of confirm_update or confirm_remove applies exactly the
\* shifts or days listed in the message that was pressed, also when another
\* request was submitted after that message was sent.
C16_AppliesWhatIsListed ==
    [][\A u \in Users : \A m \in chat[u] : \A data \in m.buttons :
          /\ ConfirmUpdate(u, m, data) => jobs' = UpdateDays(jobs, now, u, m.list)
          /\ ConfirmRemove(u, m, data) => jobs' = RemoveDays(jobs, u, DaysOf(m)).queue]_vars

\* C17: confirming a reminder touches that reminder only: the press of
\* confirm_<job_name> removes no nudge timer and sets no flag of a reminder
\* with another job_name, also when one user's id is a prefix of another's.
C17_ConfirmOwnReminder ==
    [][\A u \in Users : \A m \in chat[u] : \A data \in m.buttons :
          Confirm(u, m, data) =>
              LET job_name == Remove(data, "confirm_") IN
              /\ \A j \in DOMAIN jobs :
                    (j.callback = "nudge_reminder" /\ j.data.job_name # job_name)
                        => j \in DOMAIN jobs' /\ jobs'[j] = jobs[j]
              /\ \A n \in DOMAIN pending \ {job_name} : pending'[n] = pending[n]]_vars

----------------------------------------------------------------------------
(* Properties: the parser *)

\* the words of the lines of a text, ':' taken for a space
WordsOf(text) ==
    LET lines == SplitOn(ReplaceChar(ReplaceChar(text, "\r", "\n"), ":", " "), "\n")
    IN  [k \in 1..Len(lines) |-> Split(lines[k])]

\* whether words has the day at i, followed by the one or two words of shift
\* or of an alias of it
DayThenShift(words, i, day, shift) ==
    /\ words[i] = day
    /\ \/ i + 1 <= Len(words) /\ words[i + 1] = shift
       \/ /\ i + 2 <= Len(words)
          /\ \/ words[i + 1] \o " " \o words[i + 2] = shift
             \/ \E a \in DOMAIN SHIFT_ALIASES :
                   SHIFT_ALIASES[a] = shift /\ words[i + 1] \o " " \o words[i + 2] = a

\* the number of days among the words of a text
RECURSIVE DayCount(_)
DayCount(lines) ==
    IF Len(lines) = 0 THEN 0
    ELSE Cardinality({i \in 1..Len(lines[1]) : lines[1][i] \in DOMAIN DAY_MAP})
         + DayCount(Tail(lines))

\* C18: every tuple parse_shifts_from_text returns has a day of DAY_MAP, a
\* canonical shift of SHIFTS (an alias is normalised) and the day's number;
\* it comes from a day of the text followed by that shift, so other words give
\* nothing; and ':' reads like a space.
C18_ParsedShifts ==
    \A u \in Users :
        "text" \in DOMAIN user_data[u] =>
            LET text == user_data[u]["text"]
                parsed == user_data[u]["parsed"]
                words == WordsOf(text)
            IN  /\ \A n \in 1..Len(parsed) :
                      /\ parsed[n][1] \in DOMAIN DAY_MAP
                      /\ parsed[n][2] \in DOMAIN SHIFTS
                      /\ parsed[n][3] = DAY_MAP[parsed[n][1]]
                      /\ \E k \in 1..Len(words) : \E i \in 1..Len(words[k]) :
                            DayThenShift(words[k], i, parsed[n][1], parsed[n][2])
                /\ Len(parsed) <= DayCount(words)
                /\ (\A k \in 1..Len(words) : \A i \in 1..Len(words[k]) :
                       \A day \in DOMAIN DAY_MAP, shift \in DOMAIN SHIFTS :
                           ~DayThenShift(words[k], i, day, shift))
                      => parsed = <<>>
                /\ parsed = parse_shifts_from_text(ReplaceChar(text, ":", " "))

\* a day, ':' and the alias of a double shift were parsed
C18_AliasAfterColon ==
    /\ Get(user_data[ADMIN_ID], "text", "") = "sheni:boker kfula"
    /\ Get(user_data[ADMIN_ID], "parsed", <<>>) = <<<<"sheni", "kfula boker", 0>>>>

----------------------------------------------------------------------------
(* Properties: the lead time *)

\* C19: for every time tuple, hour 0 with minute < 5 too, the instant
\* _schedule_shift_reminder computes is 5 minutes before an occurrence of the
\* requested weekday at hour:minute: 5 minutes after it, it is that weekday and
\* that time of day.
C19_LeadBeforeOccurrence ==
    [][\A day_str \in DOMAIN DAY_MAP, time_tuple \in TimeTuples :
          ScheduleAt(day_str, time_tuple) =>
              \A j \in Dated(jobs') :
                  /\ Weekday(j.when + LeadMinutes * MINUTE) = DAY_MAP[day_str]
                  /\ TimeOfDay(j.when + LeadMinutes * MINUTE)
                        = time_tuple[1] * HOUR + time_tuple[2] * MINUTE]_vars

====
